---- MODULE Spec2Model ----
(***************************************************************************)
(* Session authenticator and expiration classifier of app.py.              *)
(*                                                                         *)
(* The state is the process-global token table (tokens), the three tables  *)
(* of Inventario.db the handlers touch (usuarios, items, tokens) and the   *)
(* wall clock.  Every request handler is one action; the dependency        *)
(* obtener_usuario runs inside the handlers that declare it.               *)
(***************************************************************************)
EXTENDS Integers, Sequences, FiniteSets, TLC

VARIABLES
    usuarios,   \* table usuarios of Inventario.db: row i has id i
    tokens,     \* the module-level dict tokens (app.py:58)
    issued,     \* history: every uuid crear_token has returned, with its user and instant
    now,        \* datetime.utcnow(), in minutes
    db_tokens,  \* table tokens of Inventario.db: token -> activo
    items,      \* table items of Inventario.db
    last,       \* the last request served and its response
    thr         \* per worker thread: its position inside obtener_usuario

vars == <<usuarios, tokens, issued, now, db_tokens, items, last, thr>>

---------------------------------------------------------------------------
(* Bounds of the model *)

MaxTokens == 2      \* uuids the process may hand out
MaxNow == 31        \* the last instant observed
MaxItems == 1       \* rows the items table may hold

(* Program constants *)

TTL == 30           \* timedelta(minutes=30)
MASTER == 1         \* usuario_id != 1

---------------------------------------------------------------------------
(* Input domains *)

UuidPool == <<"uuid-1", "uuid-2", "uuid-3", "uuid-4">>

Tokens == {UuidPool[i] : i \in 1..MaxTokens}

\* a token string no session of this process holds; the persisted tokens
\* table has a row for it
StaleToken == "abc123"

TokenStrings == Tokens \cup {StaleToken}

Names == {"master", "ana"}

Passwords == {"pw", "bad"}

Threads == {1, 2}

\* the instants at which the clock is read
Instants == {n \in 0..MaxNow : n = 0 \/ n >= TTL}

\* Authorization header values, as the sequence of their whitespace and
\* non-whitespace runs
Credentials ==
    {<<s, " ", t>> : s \in {"Bearer", "Basic"}, t \in TokenStrings}
    \cup {<<"BEARER", " ", UuidPool[1]>>, <<"bearer">>,
          <<"Bearer", " ", StaleToken, " ", "x">>}

\* fecha_vencimiento strings, as the sequence of their fields and separators
Fechas ==
    {<<2024, "-", 2, "-", 29>>, <<2024, "-", 6, "-", 9>>, <<2024, "-", 6, "-", 10>>,
     <<2024, "-", 6, "-", 11>>, <<2024, "-", 6, "-", 17>>, <<2024, "-", 6, "-", 18>>,
     <<2024, "-", 7, "-", 1>>,
     <<2023, "-", 2, "-", 29>>, <<10, "/", 6, "/", 2024>>}

\* datetime.today().date()
Hoy == [year |-> 2024, month |-> 6, day |-> 10]

\* codigo strings of a request
Codigos == {"a1 ", "ZZ"}

\* the catalog read from Inventario.xlsx
df == <<[codigo |-> "A1", descripcion |-> "Leche", stock |-> 5]>>

\* Authorization header values presented to the inventory endpoints
InvCredentials == {<<"Bearer", " ", t>> : t \in Tokens} \cup {<<"bearer">>}

---------------------------------------------------------------------------
(* Helpers *)

\* str.split(): the non-whitespace runs
split(s) == SelectSeq(s, LAMBDA p : p # " ")

\* str.lower() on the scheme words in use
lower(s) ==
    CASE s = "Bearer" -> "bearer"
      [] s = "BEARER" -> "bearer"
      [] s = "Basic" -> "basic"
      [] OTHER -> s

\* passlib: the hash embeds the password; verify recomputes it
hash_password(password) == <<"bcrypt", password>>

verify_password(password, hashed) == hashed = hash_password(password)

\* SELECT id, ... FROM usuarios WHERE usuario = ?  (0: no row)
user_id(usuario) ==
    IF \E i \in 1..Len(usuarios) : usuarios[i].usuario = usuario
    THEN CHOOSE i \in 1..Len(usuarios) : usuarios[i].usuario = usuario
    ELSE 0

NoDatos == [usuario_id |-> 0, expira |-> 0]

NoProd == [codigo |-> "", fecha_vencimiento |-> <<>>]

\* the values uuid.uuid4() can return: never one it returned before (the
\* pool names the uuids in the order they are generated)
uuid4 == {UuidPool[i] : i \in {Cardinality(DOMAIN issued) + 1} \cap (1..MaxTokens)}

\* mutant: the del is forgotten
dict_del_forgotten(d, k) == d

\* mutant: the whole table is swept
dict_del_sweep(d, k) == [t \in {} |-> d[t]]

\* del d[k]
dict_del(d, k) == [t \in DOMAIN d \ {k} |-> d[t]]

\* d[k] = v
dict_set(d, k, v) == [t \in DOMAIN d \cup {k} |-> IF t = k THEN v ELSE d[t]]

\* raise HTTPException(status_code, detail)
HTTPException(status, detail, tk) ==
    [ok |-> FALSE, usuario_id |-> 0, status |-> status, detail |-> detail, tokens |-> tk]

---------------------------------------------------------------------------
(* 5. Modelo de producto *)

is_leap(y) == y % 4 = 0 /\ (y % 100 # 0 \/ y % 400 = 0)

days_in_month(y, m) ==
    IF m = 2 THEN (IF is_leap(y) THEN 29 ELSE 28)
    ELSE IF m \in {4, 6, 9, 11} THEN 30 ELSE 31

days_before_month(y, m) ==
    <<0, 31, 59, 90, 120, 151, 181, 212, 243, 273, 304, 334>>[m]
    + (IF m > 2 /\ is_leap(y) THEN 1 ELSE 0)

\* date.toordinal(): the day number in the proleptic Gregorian calendar
toordinal(date) ==
    LET y == date.year - 1 IN
    y * 365 + (y \div 4) - (y \div 100) + (y \div 400)
    + days_before_month(date.year, date.month) + date.day

\* datetime.strptime(s, "%Y-%m-%d").date(); ok = FALSE is ValueError
strptime(s) ==
    IF /\ Len(s) = 5
       /\ s[2] = "-" /\ s[4] = "-"
       /\ s[1] \in 1..9999
       /\ s[3] \in 1..12
       /\ s[5] \in 1..days_in_month(s[1], s[3])
    THEN [ok |-> TRUE, date |-> [year |-> s[1], month |-> s[3], day |-> s[5]]]
    ELSE [ok |-> FALSE, date |-> Hoy]

\* mutant: the critical window stops a day early
categoria_lt7(dias) ==
    IF dias < 0 THEN <<"Vencido">>
    ELSE IF dias = 0 THEN <<"Se vence hoy">>
    ELSE IF dias < 7 THEN <<"Critico (<7 dias)">>
    ELSE <<"Correcto (", dias, " dias restantes)">>

\* the branches of estado_vencimiento on dias
categoria(dias) ==
    IF dias < 0 THEN <<"Vencido">>
    ELSE IF dias = 0 THEN <<"Se vence hoy">>
    ELSE IF dias <= 7 THEN <<"Critico (<7 dias)">>
    ELSE <<"Correcto (", dias, " dias restantes)">>

\* estado_vencimiento on day hoy: the string returned, or ValueError
estado_vencimiento(fecha_vencimiento, hoy) ==
    LET fecha == strptime(fecha_vencimiento) IN
    IF ~fecha.ok
    THEN [raised |-> TRUE, estado |-> <<>>]
    ELSE [raised |-> FALSE,
          estado |-> categoria(toordinal(fecha.date) - toordinal(hoy))]

---------------------------------------------------------------------------
(* 6. Tokens en memoria *)

\* mutant: the lifetime is not added
crear_token_no_ttl(usuario_id, clock) ==
    [usuario_id |-> usuario_id, expira |-> clock]

\* the entry crear_token records for usuario_id at instant clock
crear_token(usuario_id, clock) ==
    [usuario_id |-> usuario_id, expira |-> clock + TTL]

\* whether the entry has expired at instant clock
expirado(datos, clock) == clock > datos.expira

\* obtener_usuario run to completion on table tk at instant clock: the user
\* id or the HTTPException raised, and the table it leaves
obtener_usuario(authorization, tk, clock) ==
    LET parts == split(authorization) IN
    IF Len(parts) # 2
    THEN HTTPException(401, "Formato invalido", tk)
    ELSE LET scheme == parts[1]
             token == parts[2]
         IN  IF lower(scheme) # "bearer" \/ token \notin DOMAIN tk
             THEN HTTPException(401, "No autorizado", tk)
             ELSE LET datos == tk[token] IN
                  IF expirado(datos, clock)
                  THEN HTTPException(401, "Token expirado", dict_del(tk, token))
                  ELSE [ok |-> TRUE, usuario_id |-> datos.usuario_id,
                        status |-> 200, detail |-> "", tokens |-> tk]

\* the request/response record
Served(op, authorization, arg, status, detail, usuario_id, token) ==
    [op |-> op, authorization |-> authorization, arg |-> arg, status |-> status,
     detail |-> detail, usuario_id |-> usuario_id, token |-> token, prod |-> NoProd]

---------------------------------------------------------------------------
(* 7. Endpoints de usuarios *)

registro(usuario, contrasena) ==
    /\ IF user_id(usuario) # 0
       THEN /\ last' = Served("registro", <<>>, usuario, 400, "Usuario ya existe", 0, "")
            /\ UNCHANGED usuarios
       ELSE /\ usuarios' = Append(usuarios,
                    [usuario |-> usuario, contrasena |-> hash_password(contrasena)])
            /\ last' = Served("registro", <<>>, usuario, 200, "Usuario registrado", 0, "")
    /\ UNCHANGED <<tokens, issued, now, db_tokens, items, thr>>

login(usuario, contrasena) ==
    LET id == user_id(usuario) IN
    IF id # 0 /\ verify_password(contrasena, usuarios[id].contrasena)
    THEN \E token \in uuid4 :
            /\ tokens' = dict_set(tokens, token, crear_token(id, now))
            /\ issued' = dict_set(issued, token, [usuario_id |-> id, at |-> now])
            /\ last' = Served("login", <<>>, usuario, 200, "", id, token)
            /\ UNCHANGED <<usuarios, now, db_tokens, items, thr>>
    ELSE /\ last' = Served("login", <<>>, usuario, 401, "Credenciales invalidas", 0, "")
         /\ UNCHANGED <<usuarios, tokens, issued, now, db_tokens, items, thr>>

---------------------------------------------------------------------------
(* 8. Endpoints de inventario *)

\* str.strip().upper() on the codes in use
strip_upper(s) ==
    CASE s = "a1 " -> "A1"
      [] OTHER -> s

\* df[df["codigo"]...strip().upper() == codigo.strip().upper()]
buscar(codigo) ==
    SelectSeq(df, LAMBDA row : strip_upper(row.codigo) = strip_upper(codigo))

agregar_producto(prod, authorization) ==
    LET r == obtener_usuario(authorization, tokens, now)
        producto == buscar(prod.codigo)
        e == estado_vencimiento(prod.fecha_vencimiento, Hoy)
        resp(status, detail, uid) ==
            [Served("agregar_producto", authorization, "", status, detail, uid, "")
                EXCEPT !.prod = prod]
    IN
    /\ tokens' = r.tokens
    /\ IF ~r.ok
       THEN /\ last' = resp(r.status, r.detail, 0)
            /\ UNCHANGED items
       ELSE IF producto = <<>>
       THEN /\ last' = resp(404, "Producto no encontrado", r.usuario_id)
            /\ UNCHANGED items
       ELSE IF e.raised
       THEN /\ last' = resp(500, "Internal Server Error", r.usuario_id)
            /\ UNCHANGED items
       ELSE /\ Len(items) < MaxItems
            /\ items' = Append(items,
                   [usuario_id |-> r.usuario_id,
                    codigo |-> producto[1].codigo,
                    descripcion |-> producto[1].descripcion,
                    stock |-> producto[1].stock,
                    fecha_vencimiento |-> prod.fecha_vencimiento,
                    estado |-> e.estado])
            /\ last' = resp(200, "Producto agregado", r.usuario_id)
    /\ UNCHANGED <<usuarios, issued, now, db_tokens, thr>>

mis_productos(authorization) ==
    LET r == obtener_usuario(authorization, tokens, now) IN
    /\ tokens' = r.tokens
    /\ last' = Served("mis_productos", authorization, "", r.status, r.detail, r.usuario_id, "")
    /\ UNCHANGED <<usuarios, issued, now, db_tokens, items, thr>>

---------------------------------------------------------------------------
(* 9. Panel de administrador *)

\* mutant: the flag is toggled
update_activo_toggle(db, token) ==
    [t \in DOMAIN db |-> IF t = token THEN 1 - db[t] ELSE db[t]]

\* UPDATE tokens SET activo = 0 WHERE token = ?
update_activo(db, token) ==
    [t \in DOMAIN db |-> IF t = token THEN 0 ELSE db[t]]

\* mutant: the check is dropped
acceso_denegado_never(usuario_id) == FALSE

\* the administrator check of admin_panel and cerrar_sesion
acceso_denegado(usuario_id) == usuario_id # MASTER

admin_panel(authorization) ==
    LET r == obtener_usuario(authorization, tokens, now) IN
    /\ tokens' = r.tokens
    /\ last' =
         IF ~r.ok
         THEN Served("admin_panel", authorization, "", r.status, r.detail, 0, "")
         ELSE IF acceso_denegado(r.usuario_id)
         THEN Served("admin_panel", authorization, "", 403, "Acceso denegado", r.usuario_id, "")
         ELSE Served("admin_panel", authorization, "", 200, "", r.usuario_id, "")
    /\ UNCHANGED <<usuarios, issued, now, db_tokens, items, thr>>

cerrar_sesion(token, authorization) ==
    LET r == obtener_usuario(authorization, tokens, now) IN
    /\ tokens' = r.tokens
    /\ IF ~r.ok
       THEN /\ last' = Served("cerrar_sesion", authorization, token, r.status, r.detail, 0, "")
            /\ UNCHANGED db_tokens
       ELSE IF acceso_denegado(r.usuario_id)
       THEN /\ last' = Served("cerrar_sesion", authorization, token, 403,
                              "Acceso denegado", r.usuario_id, "")
            /\ UNCHANGED db_tokens
       ELSE /\ db_tokens' = update_activo(db_tokens, token)
            /\ last' = Served("cerrar_sesion", authorization, token, 303, "", r.usuario_id, "")
    /\ UNCHANGED <<usuarios, issued, now, items, thr>>

---------------------------------------------------------------------------
(* The clock *)

\* time passes between two requests
Tick ==
    /\ \E n \in Instants : n > now /\ now' = n
    /\ last' = Served("tick", <<>>, "", 0, "", 0, "")
    /\ UNCHANGED <<usuarios, tokens, issued, db_tokens, items, thr>>

IdleThread ==
    [pc |-> "idle", authorization |-> <<>>, token |-> "", datos |-> NoDatos,
     status |-> 0, detail |-> "", usuario_id |-> 0]

---------------------------------------------------------------------------
(* obtener_usuario statement by statement, one request per worker thread *)

Ended(t, status, detail, usuario_id) ==
    [t EXCEPT !.pc = "done", !.status = status, !.detail = detail,
              !.usuario_id = usuario_id]

recibir(th, authorization) ==
    /\ thr[th].pc = "idle"
    /\ thr' = [thr EXCEPT ![th] = [IdleThread EXCEPT !.pc = "L70",
                                       !.authorization = authorization]]
    /\ UNCHANGED <<usuarios, tokens, issued, now, db_tokens, items, last>>

\* scheme, token = authorization.split()
L70(th) ==
    LET t == thr[th]
        parts == split(t.authorization)
    IN
    /\ t.pc = "L70"
    /\ thr' = [thr EXCEPT ![th] =
                 IF Len(parts) # 2
                 THEN Ended(t, 401, "Formato invalido", 0)
                 ELSE [t EXCEPT !.pc = "L74", !.token = parts[2]]]
    /\ UNCHANGED <<usuarios, tokens, issued, now, db_tokens, items, last>>

\* if scheme.lower() != "bearer" or token not in tokens
L74(th) ==
    LET t == thr[th]
        scheme == split(t.authorization)[1]
    IN
    /\ t.pc = "L74"
    /\ thr' = [thr EXCEPT ![th] =
                 IF lower(scheme) # "bearer" \/ t.token \notin DOMAIN tokens
                 THEN Ended(t, 401, "No autorizado", 0)
                 ELSE [t EXCEPT !.pc = "L77"]]
    /\ UNCHANGED <<usuarios, tokens, issued, now, db_tokens, items, last>>

\* datos = tokens[token]; a missing key is an unhandled KeyError
L77(th) ==
    LET t == thr[th] IN
    /\ t.pc = "L77"
    /\ thr' = [thr EXCEPT ![th] =
                 IF t.token \in DOMAIN tokens
                 THEN [t EXCEPT !.pc = "L78", !.datos = tokens[t.token]]
                 ELSE Ended(t, 500, "KeyError", 0)]
    /\ UNCHANGED <<usuarios, tokens, issued, now, db_tokens, items, last>>

\* if datetime.utcnow() > datos["expira"] ... return datos["usuario_id"]
L78(th) ==
    LET t == thr[th] IN
    /\ t.pc = "L78"
    /\ thr' = [thr EXCEPT ![th] =
                 IF expirado(t.datos, now)
                 THEN [t EXCEPT !.pc = "L79"]
                 ELSE Ended(t, 200, "", t.datos.usuario_id)]
    /\ UNCHANGED <<usuarios, tokens, issued, now, db_tokens, items, last>>

\* del tokens[token]; raise HTTPException(401, "Token expirado")
L79(th) ==
    LET t == thr[th] IN
    /\ t.pc = "L79"
    /\ IF t.token \in DOMAIN tokens
       THEN /\ tokens' = dict_del(tokens, t.token)
            /\ thr' = [thr EXCEPT ![th] = Ended(t, 401, "Token expirado", 0)]
       ELSE /\ thr' = [thr EXCEPT ![th] = Ended(t, 500, "KeyError", 0)]
            /\ UNCHANGED tokens
    /\ UNCHANGED <<usuarios, issued, now, db_tokens, items, last>>

\* the response is sent and the thread returns to the pool
responder(th) ==
    /\ thr[th].pc = "done"
    /\ thr' = [thr EXCEPT ![th] = IdleThread]
    /\ UNCHANGED <<usuarios, tokens, issued, now, db_tokens, items, last>>

---------------------------------------------------------------------------
(* The process after start-up *)

\* Inventario.db as deployed: the master's account is row 1 of usuarios and
\* the tokens table holds one active row, left by an earlier process; the
\* process itself starts with an empty token table
Init ==
    /\ usuarios = <<[usuario |-> "master", contrasena |-> hash_password("pw")]>>
    /\ tokens = <<>>
    /\ issued = <<>>
    /\ now = 0
    /\ db_tokens = [t \in {StaleToken} |-> 1]
    /\ items = <<>>
    /\ last = Served("start", <<>>, "", 0, "", 0, "")
    /\ thr = [th \in Threads |-> IdleThread]

Next ==
    \/ \E u \in Names : registro(u, "pw")
    \/ \E u \in Names, p \in Passwords : login(u, p)
    \/ \E a \in Credentials : mis_productos(a)
    \/ \E a \in Credentials : admin_panel(a)
    \/ \E a \in Credentials, t \in TokenStrings : cerrar_sesion(t, a)
    \/ Tick

Spec == Init /\ [][Next]_vars

\* the inventory endpoints, served within the sessions' lifetime
NextInv ==
    \/ \E u \in Names : registro(u, "pw")
    \/ \E u \in Names, p \in Passwords : login(u, p)
    \/ \E c \in Codigos, f \in Fechas, a \in InvCredentials :
          agregar_producto([codigo |-> c, fecha_vencimiento |-> f], a)
    \/ \E a \in InvCredentials : mis_productos(a)

SpecInv == Init /\ [][NextInv]_vars

\* requests served concurrently by the worker threads
NextConc ==
    \/ \E u \in Names : registro(u, "pw")
    \/ \E u \in Names, p \in Passwords : login(u, p)
    \/ Tick
    \/ \E th \in Threads, a \in Credentials : recibir(th, a)
    \/ \E th \in Threads : L70(th)
    \/ \E th \in Threads : L74(th)
    \/ \E th \in Threads : L77(th)
    \/ \E th \in Threads : L78(th)
    \/ \E th \in Threads : L79(th)
    \/ \E th \in Threads : responder(th)

SpecConc == Init /\ [][NextConc]_vars

---------------------------------------------------------------------------
(* Vocabulary of the properties *)

\* the endpoints that run obtener_usuario
Validators == {"mis_productos", "admin_panel", "cerrar_sesion", "agregar_producto"}

AdminOps == {"admin_panel", "cerrar_sesion"}

\* the credential is "<bearer, in any case> t"
IsBearer(a, t) == Len(a) = 3 /\ a[1] \in {"Bearer", "BEARER"} /\ a[2] = " " /\ a[3] = t

\* the credential has two parts and a scheme other than bearer
IsOtherScheme(a) == Len(a) = 3 /\ a[2] = " " /\ a[1] \notin {"Bearer", "BEARER"}

\* the step just taken served a request of an endpoint in ops
ServedBy(ops) == last'.op \in ops

\* every entry present before and after the step is the same entry
EntriesKept == \A t \in DOMAIN tokens \cap DOMAIN tokens' : tokens'[t] = tokens[t]

---------------------------------------------------------------------------
\* what C1 asks of one step
C1_Step ==
    /\ EntriesKept
    /\ \A t \in DOMAIN tokens' :
          /\ t \in DOMAIN issued'
          /\ tokens'[t].usuario_id = issued'[t].usuario_id
          /\ tokens'[t].expira = issued'[t].at + TTL
    /\ \A t \in DOMAIN issued :
          (ServedBy(Validators) /\ IsBearer(last'.authorization, t)
              /\ now <= issued[t].at + TTL)
          => (last'.status # 401 /\ last'.usuario_id = issued[t].usuario_id)
    /\ (last'.op = "login" /\ last'.status = 200)
          => /\ last'.token \in DOMAIN issued' \ DOMAIN issued
             /\ issued'[last'.token].usuario_id = user_id(last'.arg)
             /\ issued'[last'.token].at = now

(* C1: a validate of "Bearer t" made no later than t's expiration instant  *)
(* returns the user id t was issued to, whatever else was issued,          *)
(* validated or evicted in between; the user id and expiration instant     *)
(* recorded for t are those of its issuance and never change.              *)

C1_IssueThenValidate == [][C1_Step]_vars

\* ana's token validates although another token was issued and evicted
C1_Witness ==
    /\ last.op = "mis_productos" /\ last.status = 200 /\ last.usuario_id = 2
    /\ \E t \in DOMAIN issued : t \notin DOMAIN tokens
    /\ \E t \in DOMAIN tokens : IsBearer(last.authorization, t)

---------------------------------------------------------------------------
(* C2 as stated: once 30 minutes have elapsed past issuance (now >= at +   *)
(* TTL) the first validate of the token fails with "Token expirado" and    *)
(* removes it.                                                             *)

C2_Original ==
    [][\A t \in DOMAIN tokens :
          (ServedBy(Validators) /\ IsBearer(last'.authorization, t)
              /\ now >= issued[t].at + TTL)
          => (last'.detail = "Token expirado" /\ t \notin DOMAIN tokens')]_vars

\* what the amended C2 asks of one step
C2_Step ==
    /\ \A t \in DOMAIN tokens :
          (ServedBy(Validators) /\ IsBearer(last'.authorization, t)
              /\ now > issued[t].at + TTL)
          => /\ last'.status = 401 /\ last'.detail = "Token expirado"
             /\ DOMAIN tokens' = DOMAIN tokens \ {t}
    /\ \A t \in DOMAIN issued \ DOMAIN tokens :
          /\ t \notin DOMAIN tokens'
          /\ (ServedBy(Validators) /\ IsBearer(last'.authorization, t))
                => (last'.status = 401 /\ last'.detail = "No autorizado")

(* C2 amended: once MORE than 30 minutes have elapsed past issuance, the   *)
(* first validate of "Bearer t" fails with "Token expirado" and removes t  *)
(* from the table; every later validate of it fails with "No autorizado"   *)
(* (the unknown-token outcome) and the token never returns to the table.   *)

C2_ExpiredThenUnknown == [][C2_Step]_vars

\* an evicted token has just been refused as unknown
C2_Witness ==
    /\ last.op \in Validators /\ last.detail = "No autorizado"
    /\ \E t \in DOMAIN issued \ DOMAIN tokens : IsBearer(last.authorization, t)

---------------------------------------------------------------------------
(* C3: after the administrator has revoked a token, the next validate of   *)
(* that token does not succeed.                                            *)

C3_RevokedNeverValidates ==
    [][(last.op = "cerrar_sesion" /\ last.status = 303
          /\ ServedBy(Validators) /\ IsBearer(last'.authorization, last.arg))
       => last'.status = 401]_vars

---------------------------------------------------------------------------
\* what C4 asks of one step
C4_Step ==
    /\ \A t \in DOMAIN tokens :
          (last'.op = "cerrar_sesion" /\ IsBearer(last'.authorization, t)
              /\ tokens[t].usuario_id = MASTER /\ now <= tokens[t].expira)
          => /\ last'.status = 303
             /\ last'.arg \in DOMAIN db_tokens' => db_tokens'[last'.arg] = 0
             /\ \A x \in DOMAIN db_tokens' \ {last'.arg} :
                   x \in DOMAIN db_tokens /\ db_tokens'[x] = db_tokens[x]
             /\ DOMAIN db_tokens' = DOMAIN db_tokens
    /\ (last.op = "cerrar_sesion" /\ last.status = 303
          /\ last'.op = "cerrar_sesion" /\ last'.status = 303 /\ last'.arg = last.arg)
          => (db_tokens' = db_tokens /\ tokens' = tokens)

(* C4: a revoke by the administrator completes (303) for every token       *)
(* string, and revoking the same token again leaves the state of the       *)
(* first revoke.                                                           *)

C4_RevokeIdempotent == [][C4_Step]_vars

\* the row of the stale token has been revoked
C4_Witness ==
    /\ last.op = "cerrar_sesion" /\ last.status = 303 /\ last.arg = StaleToken
    /\ db_tokens[StaleToken] = 0

---------------------------------------------------------------------------
(* C5: a validate refused for its scheme and a validate refused for an     *)
(* unknown token are told apart by the failure they raise.                 *)

C5_SchemeDistinctFromUnknown ==
    [][(/\ last.op \in Validators /\ last.status = 401
        /\ IsOtherScheme(last.authorization)
        /\ ServedBy(Validators) /\ last'.status = 401
        /\ \E t \in TokenStrings \ DOMAIN tokens : IsBearer(last'.authorization, t))
       => last'.detail # last.detail]_vars

---------------------------------------------------------------------------
(* C6: the estado stored with an item is the category of the whole-day     *)
(* difference d between its expiration date and today (2024-06-10):        *)
(* Vencido for d < 0, Se vence hoy for d = 0, Critico for 1 <= d <= 7,     *)
(* Correcto carrying d for d > 7.                                          *)

\* the day differences to 2024-06-10, from the calendar
DiasEsperados(f) ==
    CASE f = <<2024, "-", 2, "-", 29>> -> 0 - 102
      [] f = <<2024, "-", 6, "-", 9>> -> 0 - 1
      [] f = <<2024, "-", 6, "-", 10>> -> 0
      [] f = <<2024, "-", 6, "-", 11>> -> 1
      [] f = <<2024, "-", 6, "-", 17>> -> 7
      [] f = <<2024, "-", 6, "-", 18>> -> 8
      [] f = <<2024, "-", 7, "-", 1>> -> 21

\* the strings that are no date
NoDates == {<<2023, "-", 2, "-", 29>>, <<10, "/", 6, "/", 2024>>}

C6_Classify ==
    \A i \in 1..Len(items) :
        LET d == DiasEsperados(items[i].fecha_vencimiento)
            e == items[i].estado
        IN  /\ items[i].fecha_vencimiento \notin NoDates
            /\ d < 0 => e = <<"Vencido">>
            /\ d = 0 => e = <<"Se vence hoy">>
            /\ (1 <= d /\ d <= 7) => e = <<"Critico (<7 dias)">>
            /\ d > 7 => e = <<"Correcto (", d, " dias restantes)">>

\* an item expiring in exactly 7 days has been stored as critical
C6_Witness ==
    \E i \in 1..Len(items) :
        /\ items[i].fecha_vencimiento = <<2024, "-", 6, "-", 17>>
        /\ items[i].estado = <<"Critico (<7 dias)">>

---------------------------------------------------------------------------
(* C7 as stated: an administrative request refused as unauthorized (401)   *)
(* or denied (403) changes no session state.                               *)

C7_Original ==
    [][(ServedBy(AdminOps) /\ last'.status \in {401, 403})
       => (tokens' = tokens /\ db_tokens' = db_tokens)]_vars

\* t is in the table and unexpired
Live(t) == t \in DOMAIN tokens /\ now <= tokens[t].expira

\* what the amended C7 asks of one step
C7_Step ==
    /\ db_tokens' # db_tokens
          => /\ last'.op = "cerrar_sesion" /\ last'.status = 303
             /\ \E t \in DOMAIN tokens :
                   /\ IsBearer(last'.authorization, t) /\ Live(t)
                   /\ tokens[t].usuario_id = MASTER
    /\ ServedBy(AdminOps)
          => /\ (~\E t \in DOMAIN tokens : IsBearer(last'.authorization, t) /\ Live(t))
                   => last'.status = 401
             /\ \A t \in DOMAIN tokens :
                   (IsBearer(last'.authorization, t) /\ Live(t)
                       /\ tokens[t].usuario_id # MASTER)
                   => last'.status = 403
             /\ last'.status \in {401, 403}
                   => /\ db_tokens' = db_tokens
                      /\ EntriesKept
                      /\ \/ tokens' = tokens
                         \/ /\ last'.detail = "Token expirado"
                            /\ \E t \in DOMAIN tokens :
                                  /\ IsBearer(last'.authorization, t)
                                  /\ DOMAIN tokens' = DOMAIN tokens \ {t}

(* C7 amended: the active flags change only in a revoke authenticated as   *)
(* user 1; an administrative request without a valid credential gets 401,  *)
(* one authenticated as another user gets 403, and in both cases no        *)
(* active flag changes and the token table changes at most by the lazy     *)
(* eviction of the expired token the request presented.                    *)

C7_AdminOnly == [][C7_Step]_vars

\* ana has been denied a revoke and the stale row is still active
C7_Witness ==
    /\ last.op = "cerrar_sesion" /\ last.status = 403 /\ last.usuario_id = 2
    /\ last.arg = StaleToken /\ db_tokens[StaleToken] = 1

---------------------------------------------------------------------------
(* C8: under any interleaving every validate ends with a user id or an     *)
(* unauthorized outcome, never with an unhandled exception.                *)

C8_NoCrash ==
    \A th \in Threads : thr[th].pc = "done" => thr[th].status \in {200, 401}

---------------------------------------------------------------------------
(* C9: an authenticated add of a catalogued product whose expiration date  *)
(* does not parse is answered as a bad request (400) and stores no item.   *)

C9_BadDateIsBadRequest ==
    [][(/\ last'.op = "agregar_producto"
        /\ last'.usuario_id # 0
        /\ last'.prod.codigo = "a1 "
        /\ last'.prod.fecha_vencimiento \in NoDates)
       => (last'.status = 400 /\ items' = items)]_vars

---------------------------------------------------------------------------
\* what C10 asks of one step
C10_Step ==
    /\ EntriesKept
    /\ tokens' # tokens
          => \/ /\ last'.op = "login" /\ last'.status = 200
                /\ last'.token \notin DOMAIN issued
                /\ DOMAIN tokens' = DOMAIN tokens \cup {last'.token}
             \/ /\ ServedBy(Validators) /\ last'.detail = "Token expirado"
                /\ \E t \in DOMAIN tokens :
                      /\ IsBearer(last'.authorization, t)
                      /\ now > tokens[t].expira
                      /\ DOMAIN tokens' = DOMAIN tokens \ {t}
    /\ (last'.op = "login" /\ last'.status = 200) => last'.token \in DOMAIN tokens'
    /\ \A t \in DOMAIN tokens :
          (now > tokens[t].expira
              /\ ~(ServedBy(Validators) /\ IsBearer(last'.authorization, t)))
          => t \in DOMAIN tokens'

(* C10: the token table changes only by a successful login, which adds one *)
(* never-issued entry and keeps every other, or by the validate of an      *)
(* expired token, which removes that entry and keeps every other; any      *)
(* other step leaves the table as it is.                                   *)

C10_TableFrame == [][C10_Step]_vars

\* an expired token has been evicted while an expired one that was not
\* presented stays in the table
C10_Witness ==
    /\ last.op \in Validators /\ last.detail = "Token expirado"
    /\ \E t \in DOMAIN tokens : now > tokens[t].expira

====
